---- MODULE Spec2Model ----
(***************************************************************************)
(* FluFighter.py: the agent-based infection simulation                     *)
(* simulate_infection_with_individuals and the page script that calls it.  *)
(*                                                                         *)
(* Spec is the page script: the form appends a scenario to the session     *)
(* list and the display loop calls the engine once for each scenario of    *)
(* the list.  SpecEngine is one call of the engine with any arguments, the *)
(* form's or not: the function takes what it is given, and what it does    *)
(* with arguments no widget can send shows only there.                     *)
(*                                                                         *)
(* Probabilities are fixed-point numbers in halves: the integer n stands   *)
(* for the float n/2, so 0, 1/2 and 1 (and 3/2, outside [0,1]) are exact   *)
(* both here and in binary floating point.  A draw of np.random.rand() is  *)
(* a value of [0,1): 0 or 1/2.                                             *)
(*                                                                         *)
(* Python objects are modelled with their identity: dicts is the heap of   *)
(* agent dictionaries, arrays the heap of numpy position arrays; a list of *)
(* agents is a sequence of indices into dicts, and a dictionary's position *)
(* is an index into arrays.                                                *)
(***************************************************************************)
EXTENDS Integers, Sequences, FiniteSets

VARIABLES
    population_size, initial_infected, R0, recovery_rate, isolation_rate,
    days, vaccination_rate, vaccine_efficacy,
    pc, day, i, contacts,
    dicts, arrays, population, population_history,
    susceptible_vaccinated, susceptible_unvaccinated,
    infected_vaccinated, infected_unvaccinated,
    recovered_vaccinated, recovered_unvaccinated,
    total_susceptible, total_infected, total_recovered,
    simulations, idx

args == <<population_size, initial_infected, R0, recovery_rate, isolation_rate,
          days, vaccination_rate, vaccine_efficacy>>
heap == <<dicts, arrays, population>>
series == <<susceptible_vaccinated, susceptible_unvaccinated,
            infected_vaccinated, infected_unvaccinated,
            recovered_vaccinated, recovered_unvaccinated>>
totals == <<total_susceptible, total_infected, total_recovered>>
session == <<simulations, idx>>
vars == <<args, pc, day, i, contacts, heap, population_history, series, totals,
          session>>

(***************************************************************************)
(* Bounds of the model.                                                    *)
(***************************************************************************)
MaxPop == 2
MaxDays == 2
MaxContacts == 1
MaxSims == 1

(* The float 1.0 in halves. *)
One == 2

(* Values of np.random.rand(): the half-open interval [0, 1). *)
RandVals == 0 .. (One - 1)
(* Rates inside [0,1], and one outside it. *)
RateVals == 0 .. One
BadRate == One + 1
(* Values of np.random.rand(2): a point of the unit square.  The engine    *)
(* only stores and copies a position, so one point stands for all; which   *)
(* array an agent or a snapshot holds is told by the array's index.        *)
PosVals == {<<1, 0>>}

Statuses == {"Susceptible", "Infected", "Recovered"}

(***************************************************************************)
(* Agent creation, lines 21-32.                                            *)
(***************************************************************************)
\* lines 23-26, for the 0-based creation index k
InitialStatus(k, n_infected) ==
    IF k < n_infected THEN "Infected" ELSE "Susceptible"

\* line 27: np.random.rand() < vaccination_rate
Vaccinated(u, rate) == u < rate

\* line 45, for day in range(days + 1): the statement reached for day d
DayLoop(d) == IF d < days + 1 THEN "record" ELSE "aggregate"

\* line 22, for i in range(population_size): the statement reached with n agents made
AfterCreate(n) == IF n < population_size THEN "create" ELSE DayLoop(0)

CreateAgent ==
    /\ pc = "create"
    /\ Len(population) < population_size
    /\ \E u \in RandVals, pos \in PosVals :
          /\ arrays' = Append(arrays, pos)
          /\ dicts' = Append(dicts,
                [status |-> InitialStatus(Len(population), initial_infected),
                 vaccinated |-> Vaccinated(u, vaccination_rate),
                 position |-> Len(arrays) + 1])
          /\ population' = Append(population, Len(dicts) + 1)
    /\ pc' = AfterCreate(Len(population) + 1)
    /\ UNCHANGED <<args, day, i, contacts, population_history, series, totals,
                   session>>

(***************************************************************************)
(* The day loop, lines 45-96.  A control state is the statement executed   *)
(* next: its label, the day and the index of the agent a loop is at.       *)
(***************************************************************************)
Goto(c) == pc' = c.pc /\ day' = c.day /\ i' = c.i

Agent(k) == dicts[population[k]]

\* lines 47-52: the agents with a status and a vaccination flag
Count(s, v) ==
    Cardinality({k \in DOMAIN population :
                    Agent(k).status = s /\ Agent(k).vaccinated = v})

\* the snapshot keeps the live dictionary instead of a copy
SnapshotRefAliased(k) == population[k]

\* line 64: the dictionary built for agent k of the snapshot is a new object
SnapshotRef(k) == Len(dicts) + k

\* line 67: p['position'].copy() is a new array
SnapshotPositionRef(k) == Len(arrays) + k

\* lines 65-67: the fields copied into the snapshot of agent k
SnapshotRecord(k) ==
    [status |-> Agent(k).status,
     vaccinated |-> Agent(k).vaccinated,
     position |-> SnapshotPositionRef(k)]

\* the loop stops one day early
AfterRecordEarly ==
    IF day + 1 >= days THEN [pc |-> "aggregate", day |-> day, i |-> 0]
    ELSE IF Len(population) >= 1 THEN [pc |-> "spread", day |-> day, i |-> 1]
    ELSE [pc |-> DayLoop(day + 1), day |-> day + 1, i |-> 0]

\* lines 71-72: break on the last day, else the infection loop of line 75
AfterRecord ==
    IF day = days THEN [pc |-> "aggregate", day |-> day, i |-> 0]
    ELSE IF Len(population) >= 1 THEN [pc |-> "spread", day |-> day, i |-> 1]
    ELSE [pc |-> DayLoop(day + 1), day |-> day + 1, i |-> 0]

\* line 93: the recovery loop at agent j; past the last agent, the next day
AfterRecovery(j) ==
    IF j <= Len(population) THEN [pc |-> "recovery", day |-> day, i |-> j]
    ELSE [pc |-> DayLoop(day + 1), day |-> day + 1, i |-> 0]

\* past the last agent the infection loop starts over
AfterSpreadRestart(j) ==
    IF j <= Len(population) THEN [pc |-> "spread", day |-> day, i |-> j]
    ELSE [pc |-> "spread", day |-> day, i |-> 1]

\* line 75: the infection loop at agent j; past the last agent, line 93
AfterSpread(j) ==
    IF j <= Len(population) THEN [pc |-> "spread", day |-> day, i |-> j]
    ELSE AfterRecovery(1)

RecordDay ==
    /\ pc = "record"
    /\ susceptible_vaccinated' = Append(susceptible_vaccinated, Count("Susceptible", TRUE))
    /\ susceptible_unvaccinated' = Append(susceptible_unvaccinated, Count("Susceptible", FALSE))
    /\ infected_vaccinated' = Append(infected_vaccinated, Count("Infected", TRUE))
    /\ infected_unvaccinated' = Append(infected_unvaccinated, Count("Infected", FALSE))
    /\ recovered_vaccinated' = Append(recovered_vaccinated, Count("Recovered", TRUE))
    /\ recovered_unvaccinated' = Append(recovered_unvaccinated, Count("Recovered", FALSE))
    /\ arrays' = arrays \o [k \in DOMAIN population |-> arrays[Agent(k).position]]
    /\ dicts' = dicts \o [k \in DOMAIN population |-> SnapshotRecord(k)]
    /\ population_history' =
          Append(population_history, [k \in DOMAIN population |-> SnapshotRef(k)])
    /\ Goto(AfterRecord)
    /\ UNCHANGED <<args, contacts, population, totals, session>>

\* an agent that never was infected passes the test too
IsNotRecovered(d) == d.status # "Recovered"

\* lines 76 and 94: p['status'] == 'Infected'
IsInfected(d) == d.status = "Infected"

\* contacts are drawn whatever the mean
PoissonAnyMean(lam) == 0 .. MaxContacts

\* line 78: np.random.poisson(lam) for lam >= 0, cut at MaxContacts
Poisson(lam) == IF lam = 0 THEN {0} ELSE 0 .. MaxContacts

\* lines 76-79 for agent i
InfectionSpread ==
    /\ pc = "spread"
    /\ IF IsInfected(Agent(i))
       THEN /\ R0 >= 0
            /\ \E c \in Poisson(R0) :
                  IF c = 0
                  THEN Goto(AfterSpread(i + 1)) /\ contacts' = 0
                  ELSE pc' = "contact" /\ contacts' = c /\ UNCHANGED <<day, i>>
       ELSE Goto(AfterSpread(i + 1)) /\ UNCHANGED contacts
    /\ UNCHANGED <<args, heap, population_history, series, totals, session>>

\* line 78: np.random.poisson raises ValueError for lam < 0
PoissonError ==
    /\ pc = "spread"
    /\ IsInfected(Agent(i))
    /\ R0 < 0
    /\ pc' = "error"
    /\ UNCHANGED <<args, day, i, contacts, heap, population_history, series, totals,
                   session>>

\* <= for <
PassesIsolationInclusive(u) == u <= One - isolation_rate

\* line 83: np.random.rand() < (1 - isolation_rate)
PassesIsolation(u) == u < One - isolation_rate

\* the efficacy is applied to the unvaccinated
effective_R0Swapped(target) ==
    IF dicts[target].vaccinated THEN R0 * One ELSE R0 * vaccine_efficacy

\* lines 85-88, in halves like vaccine_efficacy
effective_R0(target) ==
    IF dicts[target].vaccinated THEN R0 * vaccine_efficacy ELSE R0 * One

\* line 89: np.random.rand() < effective_R0 / R0; a contact was drawn, so R0 > 0
\* and u/2 < (effective_R0/2) / R0 is u * R0 < effective_R0
InfectionRoll(u, target) == u * R0 < effective_R0(target)

\* the status of the target is not looked at
TransmitsUnchecked(target, u1, u2) ==
    /\ PassesIsolation(u1)
    /\ InfectionRoll(u2, target)

\* any target that is not Infected can be infected
TransmitsToRecovered(target, u1, u2) ==
    /\ dicts[target].status # "Infected"
    /\ PassesIsolation(u1)
    /\ InfectionRoll(u2, target)

\* lines 81-89: the contact on target infects it
Transmits(target, u1, u2) ==
    /\ dicts[target].status = "Susceptible"
    /\ PassesIsolation(u1)
    /\ InfectionRoll(u2, target)

\* a status no count of lines 47-52 looks for
InfectMisspelled(d) == [d EXCEPT !.status = "infected"]

\* the wrong status is written
InfectAsRecovered(d) == [d EXCEPT !.status = "Recovered"]

\* the agent is rebuilt without its vaccination flag
InfectRebuilt(d) == [status |-> "Infected", vaccinated |-> FALSE, position |-> d.position]

\* line 90
Infect(d) == [d EXCEPT !.status = "Infected"]

\* lines 80-90: one pass of the loop of line 79, with np.random.choice giving
\* agent t and the two np.random.rand() giving u1 and u2
ContactOn(t, u1, u2) ==
    /\ pc = "contact"
    /\ LET target == population[t] IN
          dicts' = IF Transmits(target, u1, u2)
                   THEN [dicts EXCEPT ![target] = Infect(dicts[target])]
                   ELSE dicts
    /\ contacts' = contacts - 1
    /\ IF contacts = 1 THEN Goto(AfterSpread(i + 1)) ELSE UNCHANGED <<pc, day, i>>
    /\ UNCHANGED <<args, arrays, population, population_history, series, totals,
                   session>>

\* lines 80-90 under any draws
Contact ==
    \E t \in DOMAIN population, u1 \in RandVals, u2 \in RandVals : ContactOn(t, u1, u2)

\* line 95: np.random.rand() < recovery_rate
Recovers(u) == u < recovery_rate

\* immunity is lost on recovery
RecoverToSusceptible(d) == [d EXCEPT !.status = "Susceptible"]

\* line 96
Recover(d) == [d EXCEPT !.status = "Recovered"]

\* lines 94-96 for agent i
Recovery ==
    /\ pc = "recovery"
    /\ \E u \in RandVals :
          dicts' = IF IsInfected(Agent(i)) /\ Recovers(u)
                   THEN [dicts EXCEPT ![population[i]] = Recover(Agent(i))]
                   ELSE dicts
    /\ Goto(AfterRecovery(i + 1))
    /\ UNCHANGED <<args, contacts, arrays, population, population_history, series,
                   totals, session>>

\* the unvaccinated list is left out
ArraySumFirstOnly(a, b) == [d \in DOMAIN a |-> a[d]]

\* lines 99-101: elementwise sum of two lists of equal length
ArraySum(a, b) == [d \in DOMAIN a |-> a[d] + b[d]]

\* lines 99-103
Aggregate ==
    /\ pc = "aggregate"
    /\ total_susceptible' = ArraySum(susceptible_vaccinated, susceptible_unvaccinated)
    /\ total_infected' = ArraySum(infected_vaccinated, infected_unvaccinated)
    /\ total_recovered' = ArraySum(recovered_vaccinated, recovered_unvaccinated)
    /\ pc' = "done"
    /\ UNCHANGED <<args, day, i, contacts, heap, population_history, series,
                   session>>

(***************************************************************************)
(* A call of simulate_infection_with_individuals with any arguments, at    *)
(* line 21: inside their constraints, at their edges and outside them.     *)
(***************************************************************************)
InitEngine ==
    /\ population_size \in 0 .. MaxPop
    /\ initial_infected \in 0 .. MaxPop + 1
    /\ R0 \in {-1, 0, 2}
    /\ recovery_rate \in RateVals
    /\ isolation_rate \in RateVals \cup {BadRate}
    /\ days \in 0 .. MaxDays
    /\ vaccination_rate \in RateVals
    /\ vaccine_efficacy \in RateVals
    /\ pc = AfterCreate(0)
    /\ day = 0 /\ i = 0 /\ contacts = 0
    /\ dicts = <<>> /\ arrays = <<>> /\ population = <<>>
    /\ population_history = <<>>
    /\ susceptible_vaccinated = <<>> /\ susceptible_unvaccinated = <<>>
    /\ infected_vaccinated = <<>> /\ infected_unvaccinated = <<>>
    /\ recovered_vaccinated = <<>> /\ recovered_unvaccinated = <<>>
    /\ total_susceptible = <<>> /\ total_infected = <<>> /\ total_recovered = <<>>
    /\ simulations = <<>> /\ idx = 0

\* the call from line 21 to the return of line 103
NextEngine ==
    \/ CreateAgent
    \/ RecordDay
    \/ InfectionSpread
    \/ PoissonError
    \/ Contact
    \/ Recovery
    \/ Aggregate

SpecEngine == InitEngine /\ [][NextEngine]_vars

(***************************************************************************)
(* A call of the engine on a population with room for a chain of           *)
(* infections: one agent starts Infected and MaxPop + 1 start Susceptible, *)
(* nobody is vaccinated or isolated, and a recovery is a fair coin.        *)
(***************************************************************************)
InitSequential ==
    /\ population_size = MaxPop + 2
    /\ initial_infected = 1
    /\ R0 \in {-1, 2}
    /\ recovery_rate = 1
    /\ isolation_rate = 0
    /\ days = MaxDays
    /\ vaccination_rate = 0
    /\ vaccine_efficacy = One
    /\ pc = AfterCreate(0)
    /\ day = 0 /\ i = 0 /\ contacts = 0
    /\ dicts = <<>> /\ arrays = <<>> /\ population = <<>>
    /\ population_history = <<>>
    /\ susceptible_vaccinated = <<>> /\ susceptible_unvaccinated = <<>>
    /\ infected_vaccinated = <<>> /\ infected_unvaccinated = <<>>
    /\ recovered_vaccinated = <<>> /\ recovered_unvaccinated = <<>>
    /\ total_susceptible = <<>> /\ total_infected = <<>> /\ total_recovered = <<>>
    /\ simulations = <<>> /\ idx = 0

SpecSequential == InitSequential /\ [][NextEngine]_vars

(***************************************************************************)
(* The page script, lines 110-219.  It runs on one thread, from the top,   *)
(* each time the page is drawn: the form of line 114 first, then the       *)
(* display loop of line 139, which calls the engine once for each scenario *)
(* of the session list, with the scenario's values.                        *)
(***************************************************************************)
FormPopulationMin == 50
FormPopulationMax == 1000
FormInfectedMin == 1
FormInfectedMax == 100
FormR0Max == 5
FormDaysMin == 1
FormDaysMax == 100

\* lines 115-122: the values of the widgets that are exact in halves (R0 and the
\* two counts are plain numbers)
FormRange ==
    [population_size : FormPopulationMin .. FormPopulationMax,
     initial_infected : FormInfectedMin .. FormInfectedMax,
     R0 : 1 .. FormR0Max,
     recovery_rate : 1 .. One,
     isolation_rate : 0 .. One,
     days : FormDaysMin .. FormDaysMax,
     vaccination_rate : 0 .. One,
     vaccine_efficacy : 1 .. One]

\* a scenario whose run has few outcomes, whatever its size: either every agent
\* starts Infected and recovers on the first draw, or one agent starts Infected
\* and every contact is isolated
FewOutcomes(p) ==
    \/ p.initial_infected >= p.population_size /\ p.recovery_rate = One
    \/ p.initial_infected = FormInfectedMin /\ p.isolation_rate = One

\* the scenarios submitted: the least population and day count, the greatest R0,
\* the efficacy 0.5, the least and the greatest of the other widgets, with few
\* outcomes
FormValues ==
    {p \in [population_size : {FormPopulationMin},
            initial_infected : {FormInfectedMin, FormInfectedMax},
            R0 : {FormR0Max},
            recovery_rate : {1, One},
            isolation_rate : {0, One},
            days : {FormDaysMin},
            vaccination_rate : {0, One},
            vaccine_efficacy : {1}] : FewOutcomes(p)}

\* line 139, for idx, params in enumerate(sims): the statement reached for the
\* k-th scenario (counted from 1)
DisplayLoop(k, sims) == IF k <= Len(sims) THEN "call" ELSE "idle"

\* lines 125-136 and 139: "Add Simulation" appends the form's values to the session
\* list, and the script goes on to the display loop
AddSimulation ==
    /\ pc = "idle"
    /\ Len(simulations) < MaxSims
    /\ \E simulation_parameters \in FormValues :
          /\ simulations' = Append(simulations, simulation_parameters)
          /\ pc' = DisplayLoop(1, Append(simulations, simulation_parameters))
    /\ idx' = 1
    /\ UNCHANGED <<args, day, i, contacts, heap, population_history, series, totals>>

\* lines 110-139: the script runs again without a press of the button (a widget
\* moved, the page reloaded); with an empty list the loop has nothing to do
Rerun ==
    /\ pc = "idle"
    /\ simulations # <<>>
    /\ pc' = DisplayLoop(1, simulations)
    /\ idx' = 1
    /\ UNCHANGED <<args, day, i, contacts, heap, population_history, series, totals,
                   simulations>>

\* lines 143-147: the call of the engine with the values of the scenario the loop
\* is at; the call starts at line 21
RunSimulation ==
    /\ pc = "call"
    /\ LET params == simulations[idx] IN
          /\ population_size' = params.population_size
          /\ initial_infected' = params.initial_infected
          /\ R0' = params.R0
          /\ recovery_rate' = params.recovery_rate
          /\ isolation_rate' = params.isolation_rate
          /\ days' = params.days
          /\ vaccination_rate' = params.vaccination_rate
          /\ vaccine_efficacy' = params.vaccine_efficacy
    /\ pc' = AfterCreate(0)'
    /\ UNCHANGED <<day, i, contacts, heap, population_history, series, totals,
                   session>>

\* lines 149-219 and 139: the caller draws the returned series and snapshots and
\* drops them, the locals of the call are gone, and the loop goes to the next
\* scenario
Display ==
    /\ pc = "done"
    /\ pc' = DisplayLoop(idx + 1, simulations)
    /\ idx' = IF idx + 1 <= Len(simulations) THEN idx + 1 ELSE 0
    /\ population_size' = 0 /\ initial_infected' = 0 /\ R0' = 0
    /\ recovery_rate' = 0 /\ isolation_rate' = 0 /\ days' = 0
    /\ vaccination_rate' = 0 /\ vaccine_efficacy' = 0
    /\ day' = 0 /\ i' = 0 /\ contacts' = 0
    /\ dicts' = <<>> /\ arrays' = <<>> /\ population' = <<>>
    /\ population_history' = <<>>
    /\ susceptible_vaccinated' = <<>> /\ susceptible_unvaccinated' = <<>>
    /\ infected_vaccinated' = <<>> /\ infected_unvaccinated' = <<>>
    /\ recovered_vaccinated' = <<>> /\ recovered_unvaccinated' = <<>>
    /\ total_susceptible' = <<>> /\ total_infected' = <<>> /\ total_recovered' = <<>>
    /\ UNCHANGED simulations

\* lines 110-111: the first run of the script in a session; no call is running
Init ==
    /\ population_size = 0 /\ initial_infected = 0 /\ R0 = 0
    /\ recovery_rate = 0 /\ isolation_rate = 0 /\ days = 0
    /\ vaccination_rate = 0 /\ vaccine_efficacy = 0
    /\ pc = "idle"
    /\ day = 0 /\ i = 0 /\ contacts = 0
    /\ dicts = <<>> /\ arrays = <<>> /\ population = <<>>
    /\ population_history = <<>>
    /\ susceptible_vaccinated = <<>> /\ susceptible_unvaccinated = <<>>
    /\ infected_vaccinated = <<>> /\ infected_unvaccinated = <<>>
    /\ recovered_vaccinated = <<>> /\ recovered_unvaccinated = <<>>
    /\ total_susceptible = <<>> /\ total_infected = <<>> /\ total_recovered = <<>>
    /\ simulations = <<>> /\ idx = 0

\* the form sends R0 >= 0.5, so the ValueError of line 78 is not a step of the page
Next ==
    \/ AddSimulation
    \/ Rerun
    \/ RunSimulation
    \/ CreateAgent
    \/ RecordDay
    \/ InfectionSpread
    \/ Contact
    \/ Recovery
    \/ Aggregate
    \/ Display

Spec == Init /\ [][Next]_vars

(***************************************************************************)
(* The compartmental engine, as section 4.1 of the specification gives it. *)
(* It shares the parameters, the six per-day lists and the aggregation of  *)
(* lines 99-103 with the agent engine.  Its counters are fixed-point       *)
(* numbers: the integer n stands for n / Unit individuals, and each        *)
(* product is rounded down to that resolution.                             *)
(***************************************************************************)
Unit == 1000

Min(a, b) == IF a <= b THEN a ELSE b

Last(q) == q[Len(q)]

\* the share rate of n individuals
Split(n, rate) == (n * Unit * rate) \div One

\* min(infected * r0 * efficacy * (susceptible / population_size)
\*       * (1 - isolation_rate), susceptible)
NewInfected(inf, sus, efficacy) ==
    Min((inf * R0 * efficacy * sus * (One - isolation_rate))
            \div (population_size * Unit * One * One),
        sus)

\* infected * recovery_rate
NewRecovered(inf) == (inf * recovery_rate) \div One

NextSusceptible(sus, new_inf) == sus - new_inf

\* the recovered are not taken out of the infected
NextInfectedKeepsRecovered(inf, new_inf, new_rec) == inf + new_inf

NextInfected(inf, new_inf, new_rec) == inf + new_inf - new_rec

NextRecovered(rec, new_rec) == rec + new_rec

\* one day of the compartmental update
CompartmentDay ==
    /\ pc = "compartment"
    /\ day < days
    /\ LET new_infected_vacc ==
               NewInfected(Last(infected_vaccinated), Last(susceptible_vaccinated),
                           vaccine_efficacy)
           new_infected_unvacc ==
               NewInfected(Last(infected_unvaccinated), Last(susceptible_unvaccinated),
                           One)
           new_recovered_vacc == NewRecovered(Last(infected_vaccinated))
           new_recovered_unvacc == NewRecovered(Last(infected_unvaccinated))
       IN
       /\ susceptible_vaccinated' = Append(susceptible_vaccinated,
              NextSusceptible(Last(susceptible_vaccinated), new_infected_vacc))
       /\ susceptible_unvaccinated' = Append(susceptible_unvaccinated,
              NextSusceptible(Last(susceptible_unvaccinated), new_infected_unvacc))
       /\ infected_vaccinated' = Append(infected_vaccinated,
              NextInfected(Last(infected_vaccinated), new_infected_vacc,
                           new_recovered_vacc))
       /\ infected_unvaccinated' = Append(infected_unvaccinated,
              NextInfected(Last(infected_unvaccinated), new_infected_unvacc,
                           new_recovered_unvacc))
       /\ recovered_vaccinated' = Append(recovered_vaccinated,
              NextRecovered(Last(recovered_vaccinated), new_recovered_vacc))
       /\ recovered_unvaccinated' = Append(recovered_unvaccinated,
              NextRecovered(Last(recovered_unvaccinated), new_recovered_unvacc))
    /\ day' = day + 1
    /\ pc' = IF day + 1 = days THEN "aggregate" ELSE "compartment"
    /\ UNCHANGED <<args, i, contacts, heap, population_history, totals, session>>

\* a call of the compartmental engine with parameters inside their constraints:
\* the two sub-pools of day 0
InitCompartmental ==
    /\ population_size \in 1 .. MaxPop
    /\ initial_infected \in 0 .. population_size
    /\ R0 \in {1, 2}
    /\ recovery_rate \in RateVals
    /\ isolation_rate \in RateVals
    /\ days \in 1 .. MaxDays
    /\ vaccination_rate \in RateVals
    /\ vaccine_efficacy \in RateVals
    /\ pc = "compartment"
    /\ day = 0 /\ i = 0 /\ contacts = 0
    /\ dicts = <<>> /\ arrays = <<>> /\ population = <<>>
    /\ population_history = <<>>
    /\ susceptible_vaccinated =
          <<Split(population_size - initial_infected, vaccination_rate)>>
    /\ susceptible_unvaccinated =
          <<Split(population_size - initial_infected, One - vaccination_rate)>>
    /\ infected_vaccinated = <<Split(initial_infected, vaccination_rate)>>
    /\ infected_unvaccinated = <<Split(initial_infected, One - vaccination_rate)>>
    /\ recovered_vaccinated = <<0>>
    /\ recovered_unvaccinated = <<0>>
    /\ total_susceptible = <<>> /\ total_infected = <<>> /\ total_recovered = <<>>
    /\ simulations = <<>> /\ idx = 0

NextCompartmental ==
    \/ CompartmentDay
    \/ Aggregate

SpecCompartmental == InitCompartmental /\ [][NextCompartmental]_vars

(***************************************************************************)
(* Properties.  Snapshot d of population_history is the record of day d-1. *)
(***************************************************************************)
Snap(d, k) == dicts[population_history[d][k]]

SnapPosition(d, k) == arrays[Snap(d, k).position]

Rank(s) == CASE s = "Susceptible" -> 0 [] s = "Infected" -> 1 [] s = "Recovered" -> 2

\* the agents with status s in snapshot d
SnapCount(d, s) ==
    Cardinality({k \in DOMAIN population_history[d] : Snap(d, k).status = s})

\* the constraints of the data model on a parameter record
Valid(p) ==
    /\ p.population_size > 0
    /\ 0 <= p.initial_infected /\ p.initial_infected <= p.population_size
    /\ p.R0 > 0
    /\ p.days > 0
    /\ p.recovery_rate \in RateVals
    /\ p.isolation_rate \in RateVals
    /\ p.vaccination_rate \in RateVals
    /\ p.vaccine_efficacy \in RateVals

ValidArgs ==
    Valid([population_size |-> population_size,
           initial_infected |-> initial_infected,
           R0 |-> R0,
           recovery_rate |-> recovery_rate,
           isolation_rate |-> isolation_rate,
           days |-> days,
           vaccination_rate |-> vaccination_rate,
           vaccine_efficacy |-> vaccine_efficacy])

\* C1: between two consecutive recorded days no agent's status goes back in the
\* order Susceptible < Infected < Recovered.
C1_NoRegression ==
    \A d \in DOMAIN population_history :
        d + 1 \in DOMAIN population_history =>
            \A k \in DOMAIN population_history[d] :
                Rank(Snap(d, k).status) <= Rank(Snap(d + 1, k).status)

\* a run in which one agent is recorded Susceptible, then Infected, then Recovered
C1_Witness ==
    /\ pc = "done"
    /\ Len(population_history) >= 3
    /\ \E k \in DOMAIN population :
          /\ Snap(1, k).status = "Susceptible"
          /\ Snap(2, k).status = "Infected"
          /\ Snap(3, k).status = "Recovered"

\* C2: the returned total_recovered series never decreases from one day to the next.
C2_RecoveredMonotone ==
    pc = "done" =>
        \A d \in DOMAIN total_recovered :
            d + 1 \in DOMAIN total_recovered => total_recovered[d] <= total_recovered[d + 1]

\* a returned series that grows on each of two days
C2_Witness ==
    /\ pc = "done"
    /\ Len(total_recovered) >= 3
    /\ total_recovered[1] < total_recovered[2]
    /\ total_recovered[2] < total_recovered[3]

\* C3: a run returns days + 1 snapshots of population_size records each and three
\* series of length days + 1; the last snapshot is the state the run ends in.
C3_Shape ==
    pc = "done" =>
        /\ Len(population_history) = days + 1
        /\ \A d \in DOMAIN population_history :
              Len(population_history[d]) = population_size
        /\ Len(total_susceptible) = days + 1
        /\ Len(total_infected) = days + 1
        /\ Len(total_recovered) = days + 1
        /\ \A k \in DOMAIN population :
              Snap(days + 1, k).status = Agent(k).status

\* a run of MaxDays days on MaxPop agents in which statuses changed on the last day
C3_Witness ==
    /\ pc = "done"
    /\ days = MaxDays
    /\ population_size = MaxPop
    /\ \E k \in DOMAIN population : Snap(days, k).status # Snap(days + 1, k).status

\* C4: with isolation_rate = 1.0 the Susceptible agents are the same in every
\* snapshot as on day 0, and total_susceptible is constant.
C4_FullIsolation ==
    isolation_rate = One =>
        /\ \A d \in DOMAIN population_history :
              {k \in DOMAIN population_history[d] : Snap(d, k).status = "Susceptible"}
                = {k \in DOMAIN population_history[1] : Snap(1, k).status = "Susceptible"}
        /\ Len(population_history) >= 1 =>
              \A k \in DOMAIN population :
                  Snap(1, k).status = "Susceptible" => Agent(k).status = "Susceptible"
        /\ pc = "done" =>
              \A d \in DOMAIN total_susceptible : total_susceptible[d] = total_susceptible[1]

\* under full isolation, on the second day, a contact is about to be made while a
\* Susceptible agent is there to be chosen
C4_Witness ==
    /\ isolation_rate = One
    /\ pc = "contact"
    /\ day >= 1
    /\ \E k \in DOMAIN population : Agent(k).status = "Susceptible"

\* C5: with R0 = 0 no contact is ever drawn, so no infection is attempted, and
\* total_infected never exceeds initial_infected.
C5_ZeroR0 ==
    R0 = 0 =>
        /\ pc # "contact"
        /\ contacts = 0
        /\ \A d \in DOMAIN population_history : SnapCount(d, "Infected") <= initial_infected
        /\ pc = "done" =>
              \A d \in DOMAIN total_infected : total_infected[d] <= initial_infected

\* a finished run with R0 = 0 that started with an Infected and a Susceptible agent
C5_Witness ==
    /\ R0 = 0
    /\ pc = "done"
    /\ days >= 1
    /\ total_infected[1] >= 1
    /\ total_susceptible[1] >= 1

\* C6: on day 0 exactly the first initial_infected agents are Infected, the others
\* Susceptible, none Recovered; the totals of day 0 are initial_infected, 0 and
\* population_size - initial_infected.
C6_DayZero ==
    pc = "done" =>
        /\ \A k \in DOMAIN population_history[1] :
              Snap(1, k).status = IF k <= initial_infected THEN "Infected" ELSE "Susceptible"
        /\ total_infected[1] = initial_infected
        /\ total_recovered[1] = 0
        /\ total_susceptible[1] = population_size - initial_infected

\* C7: with a parameter outside its constraint the call fails at entry: it creates
\* no agent, records nothing and returns nothing.
C7_FailFast ==
    (pc \notin {"idle", "call"} /\ ~ValidArgs) =>
        /\ pc # "done"
        /\ population = <<>>
        /\ population_history = <<>>
        /\ susceptible_vaccinated = <<>> /\ susceptible_unvaccinated = <<>>
        /\ infected_vaccinated = <<>> /\ infected_unvaccinated = <<>>
        /\ recovered_vaccinated = <<>> /\ recovered_unvaccinated = <<>>

\* C8: every parameter record in the session list, each of which the display loop
\* passes to the engine, satisfies the constraints of the data model.
C8_FormValid ==
    /\ \A s \in DOMAIN simulations : Valid(simulations[s])
    /\ pc \notin {"idle", "call"} => ValidArgs

\* C9: during a call population_history only grows, the records and position
\* arrays of its snapshots never change, and none of them is a live agent's
\* dictionary or position array.
C9_SnapshotsImmutable ==
    [][pc' \notin {"idle", "call"} =>
        /\ Len(population_history') >= Len(population_history)
        /\ \A d \in DOMAIN population_history :
              /\ population_history'[d] = population_history[d]
              /\ \A k \in DOMAIN population_history[d] :
                    /\ Snap(d, k)' = Snap(d, k)
                    /\ SnapPosition(d, k)' = SnapPosition(d, k)
        /\ \A d \in DOMAIN population_history' :
              \A k \in DOMAIN population_history'[d], a \in DOMAIN population' :
                  /\ population_history'[d][k] # population'[a]
                  /\ Snap(d, k)'.position # Agent(a)'.position]_vars

\* the snapshot of day 0 is on record and a live agent has since left the status
\* it has there
C9_Witness ==
    /\ Len(population_history) >= 2
    /\ \E k \in DOMAIN population : Snap(1, k).status # Agent(k).status

\* C10: once the agents are created, the population is the agents made, in
\* creation order, each with the position array it was made with, and every
\* snapshot holds one record per agent with the vaccinated flag and the position
\* the agent has.
C10_FlagsFixed ==
    \A d \in DOMAIN population_history :
        /\ DOMAIN population_history[d] = DOMAIN population
        /\ Len(population) = population_size
        /\ \A k \in DOMAIN population :
              /\ population[k] = k
              /\ Agent(k).position = k
              /\ Snap(d, k).vaccinated = Agent(k).vaccinated
              /\ SnapPosition(d, k) = arrays[Agent(k).position]
              /\ Snap(d, k).vaccinated = Snap(1, k).vaccinated
              /\ SnapPosition(d, k) = SnapPosition(1, k)

\* a finished run of two agents that differ in their flag, in which a vaccinated
\* agent changed status
C10_Witness ==
    /\ pc = "done"
    /\ Len(population) >= 2
    /\ Len(population_history) >= 2
    /\ Agent(1).vaccinated # Agent(2).vaccinated
    /\ \E k \in DOMAIN population :
          /\ Agent(k).vaccinated
          /\ Snap(1, k).status = "Susceptible"
          /\ Agent(k).status # "Susceptible"

\* C11 as stated: between two consecutive snapshots an agent makes at most one
\* status transition, so no agent is Susceptible in one and Recovered in the next.
C11_OncePerDay ==
    \A d \in DOMAIN population_history :
        d + 1 \in DOMAIN population_history =>
            \A k \in DOMAIN population_history[d] :
                Rank(Snap(d + 1, k).status) - Rank(Snap(d, k).status) <= 1

\* C11 amended: an agent's status is written at most once in each phase of a
\* day.  A step changes a status only in the contact phase, from Susceptible to
\* Infected, or in the recovery phase, for the agent the loop is at, from
\* Infected to Recovered, after which the loop leaves that agent.
C11_OncePerPhase ==
    [][pc' \notin {"idle", "call"} =>
        \A k \in DOMAIN population :
            Agent(k)'.status # Agent(k).status =>
                \/ /\ pc = "contact"
                   /\ Agent(k).status = "Susceptible"
                   /\ Agent(k)'.status = "Infected"
                \/ /\ pc = "recovery"
                   /\ k = i
                   /\ Agent(k).status = "Infected"
                   /\ Agent(k)'.status = "Recovered"
                   /\ (pc' = "recovery" /\ day' = day) => i' = i + 1]_vars

\* an agent recorded Susceptible one day and Recovered the next: infected and
\* recovered within one day
C11_Witness ==
    \E d \in DOMAIN population_history :
        /\ d + 1 \in DOMAIN population_history
        /\ \E k \in DOMAIN population_history[d] :
              /\ Snap(d, k).status = "Susceptible"
              /\ Snap(d + 1, k).status = "Recovered"

\* C12: in the compartmental engine, on every day the six counters, and the
\* three returned totals, add up to population_size.
C12_Conservation ==
    /\ \A d \in DOMAIN susceptible_vaccinated :
          susceptible_vaccinated[d] + susceptible_unvaccinated[d]
            + infected_vaccinated[d] + infected_unvaccinated[d]
            + recovered_vaccinated[d] + recovered_unvaccinated[d]
            = population_size * Unit
    /\ pc = "done" =>
          \A d \in DOMAIN total_susceptible :
              total_susceptible[d] + total_infected[d] + total_recovered[d]
                = population_size * Unit

\* a finished compartmental run in which individuals were infected and recovered
\* in both sub-pools
C12_Witness ==
    /\ pc = "done"
    /\ days >= 2
    /\ Last(susceptible_vaccinated) < susceptible_vaccinated[1]
    /\ Last(susceptible_unvaccinated) < susceptible_unvaccinated[1]
    /\ Last(recovered_vaccinated) > 0
    /\ Last(recovered_unvaccinated) > 0
    /\ Last(infected_vaccinated) > 0

\* C13: on every day of a returned run of the agent engine the three totals add
\* up to population_size, so total_infected lies between 0 and population_size.
C13_Conservation ==
    pc = "done" =>
        \A d \in DOMAIN total_infected :
            /\ total_susceptible[d] + total_infected[d] + total_recovered[d]
                 = population_size
            /\ 0 <= total_infected[d]
            /\ total_infected[d] <= population_size

\* a returned run in which agents were infected and agents recovered
C13_Witness ==
    /\ pc = "done"
    /\ days >= 2
    /\ total_susceptible[days + 1] < total_susceptible[1]
    /\ total_recovered[days + 1] > 0
    /\ total_infected[days + 1] > 0

\* C14: for every day of a returned run, the three totals of the day are the
\* numbers of Susceptible, Infected and Recovered records in the day's snapshot.
C14_SeriesMatchSnapshots ==
    pc = "done" =>
        /\ DOMAIN total_susceptible = DOMAIN population_history
        /\ DOMAIN total_infected = DOMAIN population_history
        /\ DOMAIN total_recovered = DOMAIN population_history
        /\ \A d \in DOMAIN population_history :
              /\ total_susceptible[d] = SnapCount(d, "Susceptible")
              /\ total_infected[d] = SnapCount(d, "Infected")
              /\ total_recovered[d] = SnapCount(d, "Recovered")

\* a returned run with a vaccinated and an unvaccinated agent whose last snapshot
\* differs from the first in its Infected and Recovered counts
C14_Witness ==
    /\ pc = "done"
    /\ days >= 1
    /\ \E a, b \in DOMAIN population : Agent(a).vaccinated /\ ~Agent(b).vaccinated
    /\ SnapCount(days + 1, "Infected") # SnapCount(1, "Infected")
    /\ SnapCount(days + 1, "Recovered") > 0

\* C15: a contact whose target is not Susceptible (the contacting agent itself,
\* another Infected agent or a Recovered one) changes no dictionary, no position
\* array and not the population, whatever the two draws.
C15_NonSusceptibleNoOp ==
    [][\A t \in DOMAIN population, u1 \in RandVals, u2 \in RandVals :
          (ContactOn(t, u1, u2) /\ Agent(t).status # "Susceptible") =>
              /\ dicts' = dicts
              /\ arrays' = arrays
              /\ population' = population]_vars

\* a contact is about to be made by agent i while another agent is Recovered:
\* the target drawn may be i itself or the Recovered agent
C15_Witness ==
    /\ pc = "contact"
    /\ isolation_rate = 0
    /\ \E k \in DOMAIN population : k # i /\ Agent(k).status = "Recovered"

\* C16: a contact on a Susceptible target that passes the isolation draw infects
\* an unvaccinated target always, a vaccinated target always when
\* vaccine_efficacy = 1 and only when vaccine_efficacy > 0; with
\* vaccine_efficacy = 0 a vaccinated agent that is Susceptible on day 0 is
\* Susceptible in every snapshot.
C16_EffectiveContact ==
    [][pc' \notin {"idle", "call"} =>
        /\ \A t \in DOMAIN population, u1 \in RandVals, u2 \in RandVals :
              (ContactOn(t, u1, u2) /\ Agent(t).status = "Susceptible"
                                    /\ PassesIsolation(u1)) =>
                  /\ ~Agent(t).vaccinated => Agent(t)'.status = "Infected"
                  /\ (Agent(t).vaccinated /\ vaccine_efficacy = One) =>
                        Agent(t)'.status = "Infected"
                  /\ (Agent(t).vaccinated /\ Agent(t)'.status = "Infected") =>
                        vaccine_efficacy > 0
        /\ vaccine_efficacy = 0 =>
              \A d \in DOMAIN population_history' :
                  \A k \in DOMAIN population_history'[d] :
                      (Snap(1, k)'.vaccinated /\ Snap(1, k)'.status = "Susceptible") =>
                          Snap(d, k)'.status = "Susceptible"]_vars

\* with an efficacy strictly between 0 and 1, a vaccinated agent that was
\* Susceptible on day 0 is Infected
C16_Witness ==
    /\ vaccine_efficacy > 0
    /\ vaccine_efficacy < One
    /\ Len(population_history) >= 1
    /\ \E k \in DOMAIN population :
          /\ Agent(k).vaccinated
          /\ Snap(1, k).status = "Susceptible"
          /\ Agent(k).status = "Infected"

\* agent k was recorded Susceptible this day and is Infected now
NewlyInfected(k) ==
    /\ Snap(Len(population_history), k).status = "Susceptible"
    /\ Agent(k).status = "Infected"

\* the agents recorded Susceptible on day d - 1 and not Susceptible the day after
NewInfections(d) ==
    Cardinality({k \in DOMAIN population_history[d] :
                    /\ Snap(d, k).status = "Susceptible"
                    /\ Snap(d + 1, k).status # "Susceptible"})

\* C17: the contact phase of a day visits the agents once each, in population
\* order, and an agent draws contacts exactly when it is Infected at the moment it
\* is visited, whatever the day's snapshot says.  So an agent infected while the
\* loop is at agent i is visited as Infected the same day when it is placed after
\* i, and is not visited again that day when it is placed before i.  Each new
\* infection is the work of one contact of the agent the loop is at, which is
\* Infected at that moment, at the start of the day or not: the contacts of the
\* agents Infected at the start of the day are no bound on the day's infections.
C17_SequentialContacts ==
    [][/\ (pc \in {"spread", "contact"} /\ pc' \in {"spread", "contact"}) =>
             /\ day' = day
             /\ i' = i \/ i' = i + 1
             /\ pc = "spread" => (i' = i <=> pc' = "contact")
       /\ (pc = "record" /\ pc' = "spread") => i' = 1
       /\ (pc \in {"spread", "contact"} /\ pc' = "recovery") =>
             (i = Len(population) /\ day' = day)
       /\ pc = "spread" =>
             \/ /\ ~IsInfected(Agent(i))
                /\ pc' # "contact" /\ pc' # "error"
                /\ dicts' = dicts
             \/ /\ IsInfected(Agent(i))
                /\ R0 > 0
                /\ \/ pc' = "contact" /\ contacts' \in 1 .. MaxContacts
                   \/ pc' # "contact" /\ contacts' = 0
             \/ /\ IsInfected(Agent(i))
                /\ R0 = 0
                /\ pc' # "contact" /\ contacts' = 0
             \/ /\ IsInfected(Agent(i))
                /\ R0 < 0
                /\ pc' = "error"
       /\ pc' \notin {"idle", "call"} =>
             \A k \in DOMAIN population :
                 (~IsInfected(Agent(k)) /\ IsInfected(Agent(k)')) =>
                     /\ pc = "contact"
                     /\ IsInfected(Agent(i))
                     /\ k # i
                     /\ contacts' = contacts - 1
                     /\ \A j \in DOMAIN population :
                           j # k => Agent(j)'.status = Agent(j).status
                     /\ (k < i /\ pc' \in {"spread", "contact"}) => k < i']_vars

\* the contact phase of day 1 is over.  On day 0 more agents were infected than
\* the agents Infected at the start of the day can have drawn contacts, so an
\* agent infected that day drew contacts of its own.  On day 1 agent t was
\* infected while no agent at or before its place was Infected at the start of
\* the day or is now: it was infected by an agent placed after it, after the loop
\* had passed it, and it drew no contact that day.
C17_Witness ==
    /\ pc = "recovery"
    /\ i = 1
    /\ day = 1
    /\ Len(population_history) = 2
    /\ NewInfections(1) > MaxContacts * SnapCount(1, "Infected")
    /\ \E t \in DOMAIN population :
          /\ NewlyInfected(t)
          /\ \A k \in 1 .. t : Snap(2, k).status # "Infected"
          /\ \A k \in 1 .. t - 1 : Agent(k).status # "Infected"

\* C18: once a recorded day has no Infected agent, every agent keeps the status
\* of that day in all later snapshots and in the live population, and the three
\* returned totals are constant from that day on.
C18_ExtinctionAbsorbing ==
    \A d \in DOMAIN population_history :
        SnapCount(d, "Infected") = 0 =>
            /\ \A e \in DOMAIN population_history :
                  e >= d =>
                      \A k \in DOMAIN population_history[d] :
                          Snap(e, k).status = Snap(d, k).status
            /\ \A k \in DOMAIN population : Agent(k).status = Snap(d, k).status
            /\ pc = "done" =>
                  \A e \in DOMAIN total_infected :
                      e >= d =>
                          /\ total_susceptible[e] = total_susceptible[d]
                          /\ total_infected[e] = 0
                          /\ total_recovered[e] = total_recovered[d]

\* a returned run whose infection died out on day 1 with a Susceptible agent
\* left, contacts possible and nothing isolated, and that went on for a day more
C18_Witness ==
    /\ pc = "done"
    /\ days >= 2
    /\ R0 > 0
    /\ isolation_rate = 0
    /\ total_infected[1] >= 1
    /\ total_infected[2] = 0
    /\ total_susceptible[2] >= 1

====
